---- MODULE Spec2Model ----
(***************************************************************************)
(* Meal planner: plan resolution (find-or-create a meal plan for a user    *)
(* and a date) as issued by the planner screens, against the meal_plans    *)
(* and meal_plan_entries tables, and the calorie aggregation of the        *)
(* fetched entries.                                                        *)
(*                                                                         *)
(* Time is counted in hours since the epoch (UTC); a calendar day is the   *)
(* integer number of whole days since the epoch, which is what the         *)
(* YYYY-MM-DD strings of the program denote.                               *)
(***************************************************************************)
EXTENDS Integers, Sequences, FiniteSets, TLC

\* ------------------------------------------------------------------ bounds
MaxPlans == 2
MaxEntries == 1
MaxTicks == 1
StartDay == 4
StartHour == 22
MaxMeals == 2
MaxBase == 3
MaxServings == 4
MaxHours == 6
MaxSteps == 2
MaxIngredients == 2
MaxRecipes == 1
MaxItems == 1
MaxLists == 1
MaxObjects == 2
MaxAuthChanges == 4

\* ------------------------------------------------------- program constants
PlanSpanDays == 7
SignificandBits == 53

\* JavaScript's null and undefined, and the absent user of getUser()
Null == [t |-> "null", v |-> 0]
Undefined == [t |-> "undefined", v |-> 0]
Id(n) == [t |-> "id", v |-> n]
NoUser == "undefined"

\* A number as a JavaScript value.
Num(n) == [t |-> "num", v |-> n]

Users == {"u1", "u2"}
Procs == {"p1", "p2"}

\* The time zones of the devices: standard offset from UTC in hours, and a
\* daylight-saving shift that applies from the instant `at` (hours, UTC) on.
Zones ==
  { [std |-> 0, shift |-> 0, at |-> 0],
    [std |-> -5, shift |-> 0, at |-> 0],
    [std |-> 1, shift |-> 1, at |-> 241] }

VARIABLES
  tz,           \* the time zone of the devices
  app,          \* which planner screen is deployed: "today" or "planner"
  now,          \* the clock, in hours
  ticks,        \* how often the clock advanced
  session,      \* per device: the signed-in user
  meal_plans,   \* table meal_plans
  entries,      \* table meal_plan_entries
  selectedDate, \* per screen: useState(new Date())
  view,         \* per screen: 'day' | 'week'
  pc,           \* per screen: where its running handler is
  op,           \* per screen: the running handler
  user,         \* per handler: user?.id
  date,         \* per handler: the day key handed to plan resolution
  widx,         \* per handler: index of loadWeekData's loop
  mpId,         \* per handler: mealPlanId
  error,        \* per handler: the error field of the last response
  meals,        \* aggregation: useState<MealEntry[]>
  weekMeals,    \* aggregation: useState<{[key]: MealEntry[]}>
  shown,        \* aggregation: the calorie totals rendered
  recipe,       \* recipe detail: useState<Recipe | null>
  servings,     \* recipe detail: useState(1), the target serving count
  ingredients,  \* recipe detail: useState<RecipeIngredient[]>
  currentStep,  \* recipe form: the page of the wizard, 1..3
  formData,     \* recipe form: useState<RecipeFormData>
  formPc,       \* recipe form: where handleSave is, or the alert shown
  recipes,             \* table recipes
  recipe_ingredients,  \* table recipe_ingredients
  recipe_steps,        \* table recipe_steps
  selectedRecipeId,    \* planner dialog, per screen: useState('')
  mealServings,        \* planner dialog, per screen: useState('1'), the servings text
  calls,               \* per device: the requests its submit handler has issued
  screen,              \* the screen the device's user works in
  newRecipe,           \* recipes screen: useState({title: '', ...}), the add modal
  addPc,               \* recipes screen: where handleAddRecipe is, or the alert shown
  newItemName,         \* shopping screen: useState('')
  itemPc,              \* shopping screen: where handleAddItem is, or the alert shown
  shopping_lists,      \* table shopping_lists
  shopping_list_items, \* table shopping_list_items
  objects,             \* table storage.objects, the rows of bucket 'recipes'
  request,             \* the request a client sent to the store last
  authed,              \* root layout: whether the auth client holds a session
  isSignedIn,          \* root layout: useState<boolean | null>(null)
  segments,            \* root layout: segments[0], the group of the route shown
  sessionReply,        \* root layout: the getSession() call of checkSession
  inbox,               \* root layout: auth events not yet handed to the listener
  authChanges          \* how often the session was gained or lost

planVars == <<tz, app, now, ticks, session, meal_plans, entries, selectedDate,
              view, pc, op, user, date, widx, mpId, error>>
aggVars == <<meals, weekMeals, shown>>
detailVars == <<recipe, servings, ingredients>>
formVars == <<currentStep, formData, formPc, recipes, recipe_ingredients, recipe_steps>>
dialogVars == <<selectedRecipeId, mealServings>>
quickVars == <<newRecipe, addPc, newItemName, itemPc, shopping_lists, shopping_list_items>>
inputVars == <<dialogVars, calls, screen, quickVars>>
policyVars == <<objects, request>>
layoutVars == <<authed, isSignedIn, segments, sessionReply, inbox, authChanges>>
moreVars == <<inputVars, policyVars, layoutVars>>
\* moreVars without calls
moreRest == <<dialogVars, screen, quickVars, policyVars, layoutVars>>
otherScreens == <<detailVars, formVars, moreVars>>
vars == <<planVars, aggVars, otherScreens>>

\* ------------------------------------------------------------ Date (JS)
\* The offset of local time from UTC at instant t.
Offset(t) == tz.std + (IF tz.shift # 0 /\ t >= tz.at THEN tz.shift ELSE 0)

\* Local wall-clock hours of instant t.
LocalWall(t) == t + Offset(t)

\* The instant whose local wall clock reads w.
FromWall(w) == w - Offset(w - tz.std)

\* d.toISOString().split('T')[0]: the UTC calendar day of instant t.
ISODay(t) == t \div 24

\* DateFromKey reading the key as a local date: midnight on the local clock.
DateFromKeyLocal(d) == FromWall(d * 24)

\* new Date('YYYY-MM-DD'): midnight UTC of that day.
DateFromKey(d) == d * 24

\* d.setDate(d.getDate() + n): n calendar days later on the local wall clock.
AddLocalDays(t, n) == FromWall(LocalWall(t) + 24 * n)

\* d.getDay(): local weekday, 0 = Sunday (day 0 of the epoch is a Thursday).
GetDay(t) == ((LocalWall(t) \div 24) + 4) % 7

\* getWeekDates(date): the 7 Date objects of the week of instant t.
getWeekDates(t) ==
  LET startOfWeek == AddLocalDays(t, 0 - GetDay(t))
  IN [i \in 1..7 |-> AddLocalDays(startOfWeek, i - 1)]

\* ------------------------------------------------------- text fields
\* A text typed into a field is the sequence of its characters.
\* The result of parseInt on a text without a number in front
NotANumber == [t |-> "nan", v |-> 0]

\* parseInt(text): blanks in front are skipped, a sign is read, then the
\* decimal digits up to the first other character; NaN when no digit is
\* there. (A text starting 0x is read to base 16; none of the texts does.)
parseInt(text) ==
  LET DigitChars == <<"0", "1", "2", "3", "4", "5", "6", "7", "8", "9">>
      IsDigit(c) == \E d \in 1..Len(DigitChars) : DigitChars[d] = c
      DigitValue(c) == (CHOOSE d \in 1..Len(DigitChars) : DigitChars[d] = c) - 1
      RECURSIVE SkipBlanks(_)
      SkipBlanks(i) ==
        IF i <= Len(text) /\ text[i] = " " THEN SkipBlanks(i + 1) ELSE i
      RECURSIVE ReadDigits(_, _)
      ReadDigits(i, n) ==
        IF i > Len(text) \/ ~IsDigit(text[i]) THEN n
        ELSE ReadDigits(i + 1, 10 * n + DigitValue(text[i]))
      start == SkipBlanks(1)
      signed == start <= Len(text) /\ text[start] \in {"-", "+"}
      first == IF signed THEN start + 1 ELSE start
  IN IF first > Len(text) \/ ~IsDigit(text[first]) THEN NotANumber
     ELSE Num(IF signed /\ text[start] = "-" THEN 0 - ReadDigits(first, 0)
              ELSE ReadDigits(first, 0))

\* x || d for a number x: d when x is NaN or 0
OrElse(x, d) == IF x.t = "nan" \/ x.v = 0 THEN d ELSE x.v

\* Missing with every text taken as given.
MissingNever(text) == FALSE

\* !text for a string: the empty text
Missing(text) == Len(text) = 0

\* The texts typed into a servings field.
ServingsTexts ==
  { <<>>, <<"0">>, <<"2">>, <<"-", "2">>, <<"2", ".", "5">>, <<"x">> }

\* The recipes offered in the dialog of the planner.
RecipeIds == { <<"r", "1">> }

\* ------------------------------------------------------------- the store
\* CoveringPlans with .lt in place of .lte: the first day of a plan is missed.
CoveringPlansExclusive(table, u, d) ==
  {pl \in table : pl.user_id = u /\ pl.start_date < d /\ pl.end_date >= d}

\* .eq('user_id', userId).lte('start_date', date).gte('end_date', date)
CoveringPlans(table, u, d) ==
  {pl \in table : pl.user_id = u /\ pl.start_date <= d /\ pl.end_date >= d}

\* .maybeSingle(): the row when there is exactly one, null when there is none,
\* and null with an error when there are several.
maybeSingle(rows) ==
  IF Cardinality(rows) = 1
  THEN [data |-> Id((CHOOSE r \in rows : TRUE).id), error |-> "none"]
  ELSE IF rows = {}
       THEN [data |-> Null, error |-> "none"]
       ELSE [data |-> Null, error |-> "PGRST116"]

\* MealPlansAccepts with a uniqueness constraint on (user_id, start_date).
MealPlansAcceptsUnique(table, row, uid) ==
  /\ row.user_id \in Users
  /\ row.user_id = uid
  /\ ~\E pl \in table : pl.user_id = row.user_id /\ pl.start_date = row.start_date

\* What the schema and the insert policy of meal_plans demand of a new row:
\* the columns are NOT NULL and the row is the requesting user's own. No
\* constraint relates the row to the rows already in the table.
MealPlansAccepts(table, row, uid) ==
  /\ row.user_id \in Users
  /\ row.user_id = uid

\* What the schema and the insert policy of meal_plan_entries demand: a
\* meal_plan_id that is the id of a plan of the requesting user.
EntriesAccepts(plans, row, uid) ==
  \E pl \in plans : Id(pl.id) = row.meal_plan_id /\ pl.user_id = uid

\* ------------------------------------------------- getOrCreateMealPlan
\* EndDate with the days subtracted: setDate(getDate() - 7).
EndDateBackwards(d) == ISODay(AddLocalDays(DateFromKey(d), 0 - PlanSpanDays))

\* endDate.setDate(endDate.getDate() + 7); endDate.toISOString().split('T')[0]
\* with endDate = new Date(date)
EndDate(d) == ISODay(AddLocalDays(DateFromKey(d), PlanSpanDays))

\* the same with endDate = new Date(), the clock reading t
EndDateToday(t) == ISODay(AddLocalDays(t, PlanSpanDays))

\* if (!userId) return null, else issue the select
Resolve(p, u, d) ==
  /\ user' = [user EXCEPT ![p] = u]
  /\ date' = [date EXCEPT ![p] = d]
  /\ error' = [error EXCEPT ![p] = "none"]
  /\ IF u = NoUser
     THEN /\ mpId' = [mpId EXCEPT ![p] = Null]
          /\ pc' = [pc EXCEPT ![p] = "entries"]
     ELSE /\ mpId' = [mpId EXCEPT ![p] = Null]
          /\ pc' = [pc EXCEPT ![p] = "select"]

\* The day key a handler of screen p works on.
DayKey(p) ==
  IF app = "today" THEN ISODay(now) ELSE ISODay(selectedDate[p])

\* supabase.auth.getUser(): the signed-in user, or none.
GetUser(p) == {session[p], NoUser}

\* The handler ends and its locals are gone: at rest ("idle"), or with the
\* Alert.alert of its catch block on the screen ("alert").
Finish(p, at) ==
  /\ pc' = [pc EXCEPT ![p] = at]
  /\ op' = [op EXCEPT ![p] = "none"]
  /\ user' = [user EXCEPT ![p] = NoUser]
  /\ date' = [date EXCEPT ![p] = 0]
  /\ widx' = [widx EXCEPT ![p] = 0]
  /\ mpId' = [mpId EXCEPT ![p] = Null]
  /\ error' = [error EXCEPT ![p] = "none"]

\* --------------------------------------------------------------- actions
\* The screen is mounted: selectedDate = new Date(), view = 'day', and the
\* effect runs loadData up to its first request.
Mount(p) ==
  /\ pc[p] = "idle"
  /\ selectedDate' = [selectedDate EXCEPT ![p] = now]
  /\ view' = [view EXCEPT ![p] = "day"]
  /\ op' = [op EXCEPT ![p] = "load"]
  /\ widx' = [widx EXCEPT ![p] = 0]
  /\ \E u \in GetUser(p) :
       Resolve(p, u, ISODay(now))
  /\ UNCHANGED <<tz, app, now, ticks, session, meal_plans, entries, aggVars, otherScreens>>

\* setView(v): the effect runs loadData or loadWeekData up to its first request.
SetView(p, v) ==
  /\ pc[p] = "idle"
  /\ app = "planner"
  /\ view' = [view EXCEPT ![p] = v]
  /\ \E u \in GetUser(p) :
       IF v = "day"
       THEN /\ op' = [op EXCEPT ![p] = "load"]
            /\ widx' = [widx EXCEPT ![p] = 0]
            /\ Resolve(p, u, DayKey(p))
       ELSE /\ op' = [op EXCEPT ![p] = "week"]
            /\ widx' = [widx EXCEPT ![p] = 1]
            /\ Resolve(p, u, ISODay(getWeekDates(selectedDate[p])[1]))
  /\ UNCHANGED <<tz, app, now, ticks, session, meal_plans, entries, selectedDate, aggVars, otherScreens>>

\* The request a submit handler of device p issues is added to its record.
Issue(p, name) ==
  calls' = [calls EXCEPT ![p] = IF op[p] = "add" THEN Append(@, name) ELSE @]

\* The dialog of the planner: a recipe is picked, the servings text is typed,
\* the dialog is cancelled.
DialogEdited(p) ==
  /\ pc[p] = "idle"
  /\ UNCHANGED <<planVars, aggVars, detailVars, formVars, calls, screen, quickVars,
                 policyVars, layoutVars>>

setSelectedRecipeId(p, id) ==
  /\ selectedRecipeId' = [selectedRecipeId EXCEPT ![p] = id]
  /\ UNCHANGED mealServings
  /\ DialogEdited(p)

setServings(p, text) ==
  /\ mealServings' = [mealServings EXCEPT ![p] = text]
  /\ UNCHANGED selectedRecipeId
  /\ DialogEdited(p)

Cancel(p) ==
  /\ selectedRecipeId' = [selectedRecipeId EXCEPT ![p] = <<>>]
  /\ mealServings' = [mealServings EXCEPT ![p] = <<"1">>]
  /\ DialogEdited(p)

\* handleAddMeal: without a recipe selected an alert and nothing more; else
\* getUser and plan resolution up to its first request. The values of the
\* dialog the handler works with are those of the press; the dialog rests
\* while the handler runs.
handleAddMeal(p) ==
  /\ pc[p] = "idle"
  /\ Cardinality(entries) < MaxEntries
  /\ IF Missing(selectedRecipeId[p])
     THEN /\ pc' = [pc EXCEPT ![p] = "alert"]
          /\ calls' = [calls EXCEPT ![p] = <<>>]
          /\ UNCHANGED <<op, widx, user, date, mpId, error>>
     ELSE /\ op' = [op EXCEPT ![p] = "add"]
          /\ widx' = [widx EXCEPT ![p] = 0]
          /\ \E u \in GetUser(p) :
               /\ Resolve(p, u, DayKey(p))
               /\ calls' = [calls EXCEPT ![p] =
                              <<"auth.getUser",
                                IF u = NoUser THEN "meal_plan_entries.insert"
                                ELSE "meal_plans.select">>]
  /\ UNCHANGED <<tz, app, now, ticks, session, meal_plans, entries, selectedDate,
                 view, aggVars, detailVars, formVars, moreRest>>

\* The response to the select of getOrCreateMealPlan: the error is dropped,
\* a row is returned, anything else goes on to the insert. `failures` holds
\* the ways the request can go: FALSE, the store answers; TRUE, it is
\* unreachable or refuses.
SelectPlan(p, failures) ==
  /\ pc[p] = "select"
  /\ \E fail \in failures :
       LET resp == IF fail THEN [data |-> Null, error |-> "failed"]
                   ELSE maybeSingle(CoveringPlans(meal_plans, user[p], date[p]))
       IN /\ error' = [error EXCEPT ![p] = resp.error]
          /\ IF resp.data # Null
             THEN /\ mpId' = [mpId EXCEPT ![p] = resp.data]
                  /\ pc' = [pc EXCEPT ![p] = "entries"]
                  /\ Issue(p, "meal_plan_entries.insert")
             ELSE /\ pc' = [pc EXCEPT ![p] = "insert"]
                  /\ Issue(p, "meal_plans.insert")
                  /\ UNCHANGED mpId
  /\ UNCHANGED <<tz, app, now, ticks, session, meal_plans, entries, selectedDate,
                 view, op, user, date, widx, aggVars, detailVars, formVars, moreRest>>

\* The response to the insert of getOrCreateMealPlan: newPlan?.id is returned,
\* the error is dropped.
InsertPlan(p, failures) ==
  /\ pc[p] = "insert"
  /\ Cardinality(meal_plans) < MaxPlans
  /\ \E fail \in failures :
       LET row == [id |-> Cardinality(meal_plans) + 1,
                   user_id |-> user[p],
                   start_date |-> date[p],
                   end_date |-> IF app = "today" THEN EndDateToday(now)
                                ELSE EndDate(date[p])]
           ok == ~fail /\ MealPlansAccepts(meal_plans, row, user[p])
       IN IF ok
          THEN /\ meal_plans' = meal_plans \cup {row}
               /\ mpId' = [mpId EXCEPT ![p] = Id(row.id)]
               /\ error' = [error EXCEPT ![p] = "none"]
          ELSE /\ meal_plans' = meal_plans
               /\ mpId' = [mpId EXCEPT ![p] = Undefined]
               /\ error' = [error EXCEPT ![p] = IF fail THEN "failed" ELSE "rejected"]
  /\ pc' = [pc EXCEPT ![p] = "entries"]
  /\ Issue(p, "meal_plan_entries.insert")
  /\ UNCHANGED <<tz, app, now, ticks, session, entries, selectedDate, view, op,
                 user, date, widx, aggVars, detailVars, formVars, moreRest>>

\* loadData / loadWeekData as called at the end of handleAddMeal, up to the
\* first request.
Reload(p) ==
  \E u \in GetUser(p) :
    IF app = "today" \/ view[p] = "day"
    THEN /\ op' = [op EXCEPT ![p] = "load"]
         /\ widx' = [widx EXCEPT ![p] = 0]
         /\ Resolve(p, u, DayKey(p))
    ELSE /\ op' = [op EXCEPT ![p] = "week"]
         /\ widx' = [widx EXCEPT ![p] = 1]
         /\ Resolve(p, u, ISODay(getWeekDates(selectedDate[p])[1]))

\* loadData: the responses to the meal_plan_entries and recipes selects;
\* whatever mealPlanId is, the result is shown and nothing is thrown.
LoadEntries(p) ==
  /\ pc[p] = "entries"
  /\ op[p] = "load"
  /\ Finish(p, "idle")
  /\ UNCHANGED <<tz, app, now, ticks, session, meal_plans, entries, selectedDate,
                 view, aggVars, otherScreens>>

\* loadWeekData: the response to the meal_plan_entries select of one day of
\* the loop, then the next day's plan resolution or the end of the loop.
WeekEntries(p) ==
  /\ pc[p] = "entries"
  /\ op[p] = "week"
  /\ IF widx[p] < 7
     THEN /\ widx' = [widx EXCEPT ![p] = widx[p] + 1]
          /\ Resolve(p, user[p], ISODay(getWeekDates(selectedDate[p])[widx[p] + 1]))
          /\ UNCHANGED op
     ELSE Finish(p, "idle")
  /\ UNCHANGED <<tz, app, now, ticks, session, meal_plans, entries, selectedDate,
                 view, aggVars, otherScreens>>

\* handleAddMeal: the response to the meal_plan_entries insert; an error is
\* thrown and alerted, a success empties the dialog and reloads the view.
InsertEntry(p, failures) ==
  /\ pc[p] = "entries"
  /\ op[p] = "add"
  /\ \E fail \in failures :
       LET row == [id |-> Cardinality(entries) + 1,
                   meal_plan_id |-> mpId[p],
                   meal_date |-> date[p],
                   recipe_id |-> selectedRecipeId[p],
                   servings |-> OrElse(parseInt(mealServings[p]), 1)]
           ok == ~fail /\ EntriesAccepts(meal_plans, row, user[p])
       IN IF ok
          THEN /\ entries' = entries \cup {row}
               /\ selectedRecipeId' = [selectedRecipeId EXCEPT ![p] = <<>>]
               /\ mealServings' = [mealServings EXCEPT ![p] = <<"1">>]
               /\ calls' = [calls EXCEPT ![p] = <<>>]
               /\ Reload(p)
          ELSE /\ entries' = entries
               /\ UNCHANGED <<dialogVars, calls>>
               /\ Finish(p, "alert")
  /\ UNCHANGED <<tz, app, now, ticks, session, meal_plans, selectedDate, view,
                 aggVars, detailVars, formVars, screen, quickVars, policyVars,
                 layoutVars>>

\* handleAuth: signInWithPassword succeeds and the device's session is u's.
handleAuth(p, u) ==
  /\ pc[p] = "idle"
  /\ session[p] # u
  /\ session' = [session EXCEPT ![p] = u]
  /\ UNCHANGED <<tz, app, now, ticks, meal_plans, entries, selectedDate,
                 view, pc, op, user, date, widx, mpId, error, aggVars, otherScreens>>

\* The user closes the alert.
DismissAlert(p) ==
  /\ pc[p] = "alert"
  /\ pc' = [pc EXCEPT ![p] = "idle"]
  /\ calls' = [calls EXCEPT ![p] = <<>>]
  /\ UNCHANGED <<tz, app, now, ticks, session, meal_plans, entries, selectedDate,
                 view, op, user, date, widx, mpId, error, aggVars, detailVars,
                 formVars, moreRest>>

\* A day passes.
Tick ==
  /\ ticks < MaxTicks
  /\ ticks' = ticks + 1
  /\ now' = now + 24
  /\ UNCHANGED <<tz, app, session, meal_plans, entries, selectedDate, view, pc,
                 op, user, date, widx, mpId, error, aggVars, otherScreens>>

\* An hour passes.
HourPasses ==
  /\ ticks < MaxHours
  /\ ticks' = ticks + 1
  /\ now' = now + 1
  /\ UNCHANGED <<tz, app, session, meal_plans, entries, selectedDate, view, pc,
                 op, user, date, widx, mpId, error, aggVars, otherScreens>>

\* ----------------------------------------------------------- aggregation
\* The rows the selects of meal_plan_entries return, each with its joined
\* recipe: recipes(title, calories_per_serving), absent when recipe_id is
\* NULL or the recipe row cannot be read.
NoRecipe == [joined |-> FALSE, calories_per_serving |-> Undefined]
Joined(c) == [joined |-> TRUE, calories_per_serving |-> c]
Entry(type, n, c) == [meal_type |-> type, servings |-> n, recipes |-> Joined(c)]

\* The entries that get added: two breakfasts and a lunch with calories, a
\* dinner whose recipe states no calories, and an entry another client stored
\* with a meal_type the planner does not know (the column is free text).
AddedEntries ==
  { Entry("breakfast", 2, Num(300)),
    Entry("breakfast", 1, Num(150)),
    Entry("lunch", 1, Num(500)),
    Entry("dinner", 1, Null),
    Entry("brunch", 1, Num(400)) }

\* const mealTypes: the sections of a day, in the order they are rendered.
mealTypes == <<"breakfast", "lunch", "dinner", "snack">>

\* EntryCalories without the servings factor.
EntryCaloriesPerServing(meal) ==
  LET c == IF meal.recipes.joined THEN meal.recipes.calories_per_serving
           ELSE Undefined
  IN IF c.t = "num" /\ c.v # 0 THEN c.v ELSE 0

\* EntryCalories with || 1 in place of || 0.
EntryCaloriesDefaultOne(meal) ==
  LET c == IF meal.recipes.joined THEN meal.recipes.calories_per_serving
           ELSE Undefined
  IN (IF c.t = "num" /\ c.v # 0 THEN c.v ELSE 1) * meal.servings

\* (meal.recipes?.calories_per_serving || 0) * meal.servings
EntryCalories(meal) ==
  LET c == IF meal.recipes.joined THEN meal.recipes.calories_per_serving
           ELSE Undefined
  IN (IF c.t = "num" /\ c.v # 0 THEN c.v ELSE 0) * meal.servings

\* rows.reduce((total, meal) => total + ..., 0) from row i on
RECURSIVE Reduce(_, _, _)
Reduce(rows, i, total) ==
  IF i > Len(rows) THEN total
  ELSE Reduce(rows, i + 1, total + EntryCalories(rows[i]))

\* getTodayCalories(): over the state `meals`
getTodayCalories(ms) == Reduce(ms, 1, 0)

\* getDayCalories reading the rows of the following day as well.
getDayCaloriesWithNextDay(wm, k) ==
  LET dayMeals == IF k \in DOMAIN wm THEN wm[k] ELSE <<>>
      nextMeals == IF k + 1 \in DOMAIN wm THEN wm[k + 1] ELSE <<>>
  IN Reduce(dayMeals \o nextMeals, 1, 0)

\* getDayCalories(date): over weekMeals[date] || []
getDayCalories(wm, k) ==
  LET dayMeals == IF k \in DOMAIN wm THEN wm[k] ELSE <<>>
  IN Reduce(dayMeals, 1, 0)

\* Filter that puts each kept row in front of the rows kept before it.
RECURSIVE FilterReversed(_, _, _, _)
FilterReversed(rows, i, type, kept) ==
  IF i > Len(rows) THEN kept
  ELSE FilterReversed(rows, i + 1, type,
                      IF rows[i].meal_type = type THEN <<rows[i]>> \o kept ELSE kept)

\* rows.filter((meal) => meal.meal_type === type) from row i on
RECURSIVE Filter(_, _, _, _)
Filter(rows, i, type, kept) ==
  IF i > Len(rows) THEN kept
  ELSE Filter(rows, i + 1, type,
              IF rows[i].meal_type = type THEN Append(kept, rows[i]) ELSE kept)

\* getMealsByType(type, date?) while the screen shows view v: the rows of
\* weekMeals[date] || [] in the week view when a date is given, else of meals.
getMealsByType(ms, wm, v, type, d) ==
  IF v = "week" /\ d # Undefined
  THEN Filter(IF d.v \in DOMAIN wm THEN wm[d.v] ELSE <<>>, 1, type, <<>>)
  ELSE Filter(ms, 1, type, <<>>)

\* The day keys of the week view: getWeekDates(selectedDate) as rendered.
WeekKeys == {ISODay(getWeekDates(selectedDate["p1"])[i]) : i \in 1..7}

\* What the planner renders of its state: in the day view the day's total and
\* the rows of each section, in the week view each day's total and the rows
\* counted in each of its slots.
Render(ms, wm) ==
  [day |-> getTodayCalories(ms),
   week |-> [k \in WeekKeys |-> getDayCalories(wm, k)],
   groups |-> [j \in DOMAIN mealTypes |->
                 getMealsByType(ms, wm, "day", mealTypes[j], Undefined)],
   weekGroups |-> [k \in WeekKeys |->
                     [j \in DOMAIN mealTypes |->
                        getMealsByType(ms, wm, "week", mealTypes[j], Num(k))]]]

\* The rows without row i.
RemoveAt(rows, i) == [j \in 1..(Len(rows) - 1) |-> IF j < i THEN rows[j] ELSE rows[j + 1]]

\* The number of rows held in meals and weekMeals together.
RECURSIVE CountRows(_, _)
CountRows(wm, keys) ==
  IF keys = {} THEN 0
  ELSE LET k == CHOOSE x \in keys : TRUE
       IN Len(wm[k]) + CountRows(wm, keys \ {k})
Loaded == Len(meals) + CountRows(weekMeals, DOMAIN weekMeals)

\* setMeals(mealEntries || []) and the render that follows.
setMeals(rows) ==
  /\ meals' = rows
  /\ shown' = Render(rows, weekMeals)
  /\ UNCHANGED <<weekMeals, planVars, otherScreens>>

\* setWeekMeals(weekMealsData) and the render that follows.
setWeekMeals(wm) ==
  /\ weekMeals' = wm
  /\ shown' = Render(meals, wm)
  /\ UNCHANGED <<meals, planVars, otherScreens>>

\* loadData after handleAddMeal stored entry e for the day.
LoadDayAdded(e) ==
  /\ Loaded < MaxMeals
  /\ setMeals(Append(meals, e))

\* loadData after handleDeleteMeal removed row i.
LoadDayDeleted(i) == setMeals(RemoveAt(meals, i))

\* loadData after the recipe of row i was deleted (recipe_id SET NULL).
LoadDayRecipeGone(i) ==
  /\ meals[i].recipes.joined
  /\ setMeals([meals EXCEPT ![i].recipes = NoRecipe])

\* The rows of the week as loadWeekData collects them: one list per day key.
WeekData == IF DOMAIN weekMeals = {} THEN [k \in WeekKeys |-> <<>>] ELSE weekMeals

\* loadWeekData after an entry e was stored for day k.
LoadWeekAdded(k, e) ==
  /\ Loaded < MaxMeals
  /\ setWeekMeals([WeekData EXCEPT ![k] = Append(@, e)])

\* loadWeekData after row i of day k was removed.
LoadWeekDeleted(k, i) == setWeekMeals([WeekData EXCEPT ![k] = RemoveAt(@, i)])

\* loadWeekData after the recipe of row i of day k was deleted.
LoadWeekRecipeGone(k, i) ==
  /\ WeekData[k][i].recipes.joined
  /\ setWeekMeals([WeekData EXCEPT ![k][i].recipes = NoRecipe])

\* ---------------------------------------------------------- numbers (JS)
\* A JavaScript number is an IEEE 754 double: a sign, a significand of
\* SignificandBits bits and a power of two, or an infinity, or NaN. The
\* significand is a natural number held as its digits to the base LimbBase,
\* lowest first, with its highest bit set unless the number is 0; exponent
\* overflow and subnormals are out of the range of the values used.
LimbBase == 2 ^ 12

Double(neg, m, e) == [k |-> "finite", neg |-> neg, m |-> m, e |-> e]
Infinity(neg) == [k |-> "inf", neg |-> neg, m |-> <<>>, e |-> 0]
NaN == [k |-> "nan", neg |-> FALSE, m |-> <<>>, e |-> 0]
Zero == Double(FALSE, <<>>, 0)

\* The digits of a natural number.
RECURSIVE NatLimbs(_)
NatLimbs(n) == IF n = 0 THEN <<>> ELSE <<n % LimbBase>> \o NatLimbs(n \div LimbBase)

\* The digits without zeros at the high end.
RECURSIVE TrimHigh(_)
TrimHigh(N) ==
  IF N # <<>> /\ N[Len(N)] = 0
  THEN TrimHigh(SubSeq(N, 1, Len(N) - 1))
  ELSE N

\* The number of bits of a natural number.
BitLen(N) ==
  IF N = <<>> THEN 0
  ELSE 12 * (Len(N) - 1)
         + (CHOOSE j \in 1..12 : N[Len(N)] < 2 ^ j /\ N[Len(N)] >= 2 ^ (j - 1))

\* N * k + carry
RECURSIVE MulNat(_, _, _)
MulNat(N, k, carry) ==
  IF N = <<>> THEN NatLimbs(carry)
  ELSE LET x == N[1] * k + carry
       IN <<x % LimbBase>> \o MulNat(Tail(N), k, x \div LimbBase)

\* Long division of N by d from digit i down: quotient and remainder.
RECURSIVE DivNat(_, _, _, _, _)
DivNat(N, i, d, rem, quot) ==
  IF i = 0 THEN [q |-> TrimHigh(quot), r |-> rem]
  ELSE LET x == LimbBase * rem + N[i]
       IN DivNat(N, i - 1, d, x % d, <<x \div d>> \o quot)

\* N + 1
RECURSIVE Increment(_)
Increment(N) ==
  IF N = <<>> THEN <<1>>
  ELSE IF N[1] + 1 < LimbBase THEN <<N[1] + 1>> \o Tail(N)
       ELSE <<0>> \o Increment(Tail(N))

IsOdd(N) == N # <<>> /\ N[1] % 2 = 1

\* N * 2^s
ShiftLeft(N, s) ==
  TrimHigh(MulNat([i \in 1..(s \div 12) |-> 0] \o N, 2 ^ (s % 12), 0))

\* N \div 2^s, and whether bits were lost
ShiftRight(N, s) ==
  LET a == IF s \div 12 < Len(N) THEN s \div 12 ELSE Len(N)
      rest == SubSeq(N, a + 1, Len(N))
      d == DivNat(rest, Len(rest), 2 ^ (s % 12), 0, <<>>)
  IN [q |-> d.q, lost |-> d.r # 0 \/ \E i \in 1..a : N[i] # 0]

\* Round-to-nearest, ties-to-even, of the exact value N * 2^e (plus a nonzero
\* remainder below the lowest bit when `inexact`) to a double.
RoundNearestEven(neg, N, e, inexact) ==
  LET sh == BitLen(N) - SignificandBits
  IN IF N = <<>> THEN Zero
     ELSE IF sh <= 0 THEN Double(neg, ShiftLeft(N, 0 - sh), e + sh)
          ELSE LET low == ShiftRight(N, sh - 1)
                   kept == ShiftRight(low.q, 1).q
                   up == IsOdd(low.q) /\ (inexact \/ low.lost \/ IsOdd(kept))
                   m == IF up THEN Increment(kept) ELSE kept
               IN IF BitLen(m) > SignificandBits
                  THEN Double(neg, ShiftRight(m, 1).q, e + sh + 1)
                  ELSE Double(neg, m, e + sh)

Abs(n) == IF n < 0 THEN 0 - n ELSE n

\* x * n for a double x and an integer n: the exact product, rounded.
Times(x, n) ==
  IF x.k = "nan" THEN NaN
  ELSE IF x.k = "inf"
       THEN IF n = 0 THEN NaN ELSE Infinity(x.neg # (n < 0))
       ELSE RoundNearestEven(x.neg # (n < 0), TrimHigh(MulNat(x.m, Abs(n), 0)),
                             x.e, FALSE)

\* x / n for a double x and an integer n: the exact quotient, rounded. The
\* dividend is shifted left so that the quotient has more bits than a
\* significand holds.
Over(x, n) ==
  IF x.k = "nan" THEN NaN
  ELSE IF n = 0
       THEN IF x.k = "finite" /\ x.m = <<>> THEN NaN ELSE Infinity(x.neg)
       ELSE IF x.k = "inf" THEN Infinity(x.neg # (n < 0))
            ELSE IF x.m = <<>> THEN Zero
                 ELSE LET sh == 12 * Len(NatLimbs(Abs(n))) + 12
                          d == DivNat(ShiftLeft(x.m, sh), Len(x.m) + sh \div 12,
                                      Abs(n), 0, <<>>)
                      IN RoundNearestEven(x.neg # (n < 0), d.q, x.e - sh, d.r # 0)

\* The double of an integer.
FromInt(n) == RoundNearestEven(n < 0, NatLimbs(Abs(n)), 0, FALSE)

\* The double a decimal n/d is read as: the nearest one.
Decimal(n, d) == Over(FromInt(n), d)

\* ToNumber of a servings value: null counts as 0.
ToNumber(x) == IF x.t = "num" THEN x.v ELSE 0

\* --------------------------------------------------------- recipe detail
\* useState<Recipe | null>(null), and a recipe row as loaded.
NoRecipeYet == [t |-> "null", servings |-> Null]
RecipeRow(srv) == [t |-> "recipe", servings |-> srv]

\* What recipes.servings can hold: INTEGER, nullable, no CHECK.
StoredServings == {Num(n) : n \in (0 - 1)..MaxBase} \cup {Null}

\* The quantities of the stored ingredients: 0.1, 0.5 and 2.
Quantities == {Decimal(1, 10), Decimal(1, 2), FromInt(2)}

\* The ingredient lists of the stored recipes.
StoredIngredients ==
  {<<[quantity |-> q]>> : q \in Quantities}
    \cup {<<[quantity |-> q1], [quantity |-> q2]>> : q1, q2 \in Quantities}

\* scaleIngredient(quantity) with the screen's recipe and servings
scaleIngredient(quantity, rcp, srv) ==
  IF rcp.t = "null" THEN quantity
  ELSE Over(Times(quantity, ToNumber(srv)), ToNumber(rcp.servings))

\* The quantities as rendered in the ingredient list.
Scaled == [i \in DOMAIN ingredients |->
             scaleIngredient(ingredients[i].quantity, recipe, servings)]

\* loadRecipe: the recipe row is read, servings is set to the recipe's, and
\* the ingredients are read.
loadRecipe(srv, ings) ==
  /\ recipe.t = "null"
  /\ recipe' = RecipeRow(srv)
  /\ servings' = srv
  /\ ingredients' = ings
  /\ UNCHANGED <<planVars, aggVars, formVars, moreVars>>

\* The '-' button: setServings(Math.max(1, servings - 1))
pressMinus ==
  /\ recipe.t = "recipe"
  /\ Len(ingredients) > 0
  /\ servings' = Num(IF ToNumber(servings) - 1 > 1 THEN ToNumber(servings) - 1 ELSE 1)
  /\ UNCHANGED <<recipe, ingredients, planVars, aggVars, formVars, moreVars>>

\* The '+' button: setServings(servings + 1)
pressPlus ==
  /\ recipe.t = "recipe"
  /\ Len(ingredients) > 0
  /\ ToNumber(servings) < MaxServings
  /\ servings' = Num(ToNumber(servings) + 1)
  /\ UNCHANGED <<recipe, ingredients, planVars, aggVars, formVars, moreVars>>

\* router.back(): the screen is left and its state is gone.
Back ==
  /\ recipe.t = "recipe"
  /\ recipe' = NoRecipeYet
  /\ servings' = Num(1)
  /\ ingredients' = <<>>
  /\ UNCHANGED <<planVars, aggVars, formVars, moreVars>>

\* ----------------------------------------------------------- recipe form
\* The texts typed into the fields of the form: nothing, a blank, a word.
Texts == {"", " ", "x"}

\* s.trim()
Trim(s) == IF s = " " THEN "" ELSE s

\* The form as first rendered: useState<RecipeFormData>({...})
NewForm ==
  [title |-> "", description |-> "", servings |-> <<"4">>, is_public |-> FALSE,
   ingredients |-> <<[ingredient_name |-> ""]>>,
   steps |-> <<[step_number |-> 1, instruction |-> ""]>>]

\* array.filter((_, i) => i !== index), positions counted from 1
Without(rows, index) ==
  [j \in 1..(Len(rows) - 1) |-> IF j < index THEN rows[j] ELSE rows[j + 1]]

\* rows.filter((row) => row[field].trim())
RECURSIVE NonBlank(_, _, _)
NonBlank(rows, field, i) ==
  IF i > Len(rows) THEN <<>>
  ELSE (IF Trim(rows[i][field]) # "" THEN <<rows[i]>> ELSE <<>>)
         \o NonBlank(rows, field, i + 1)

\* What follows a change of the form: the other screens and the store rest.
FormEdited ==
  UNCHANGED <<currentStep, formPc, recipes, recipe_ingredients, recipe_steps,
              planVars, aggVars, detailVars, moreVars>>

\* updateFormData(field, value) on the first page
updateFormData(field, value) ==
  /\ formPc = "form"
  /\ currentStep = 1
  /\ formData' = [formData EXCEPT ![field] = value]
  /\ FormEdited

addIngredient ==
  /\ formPc = "form"
  /\ currentStep = 2
  /\ Len(formData.ingredients) < MaxIngredients
  /\ formData' = [formData EXCEPT !.ingredients = Append(@, [ingredient_name |-> ""])]
  /\ FormEdited

\* The button is rendered while there is more than one ingredient.
removeIngredient(index) ==
  /\ formPc = "form"
  /\ currentStep = 2
  /\ Len(formData.ingredients) > 1
  /\ formData' = [formData EXCEPT !.ingredients = Without(@, index)]
  /\ FormEdited

updateIngredient(index, value) ==
  /\ formPc = "form"
  /\ currentStep = 2
  /\ formData' = [formData EXCEPT !.ingredients[index].ingredient_name = value]
  /\ FormEdited

\* The new step is numbered prev.steps.length + 1.
addStep ==
  /\ formPc = "form"
  /\ currentStep = 3
  /\ Len(formData.steps) < MaxSteps
  /\ formData' = [formData EXCEPT !.steps =
                    Append(@, [step_number |-> Len(@) + 1, instruction |-> ""])]
  /\ FormEdited

\* removeStep leaving each step its number.
removeStepKeepingNumbers(steps, index) == Without(steps, index)

\* steps.filter((_, i) => i !== index).map((step, i) => ({...step, step_number: i + 1}))
removeStepRenumbered(steps, index) ==
  LET rest == Without(steps, index)
  IN [j \in 1..Len(rest) |-> [rest[j] EXCEPT !.step_number = j]]

\* The button is rendered while there is more than one step.
removeStep(index) ==
  /\ formPc = "form"
  /\ currentStep = 3
  /\ Len(formData.steps) > 1
  /\ formData' = [formData EXCEPT !.steps = removeStepRenumbered(@, index)]
  /\ FormEdited

updateStep(index, instruction) ==
  /\ formPc = "form"
  /\ currentStep = 3
  /\ formData' = [formData EXCEPT !.steps[index].instruction = instruction]
  /\ FormEdited

\* validateStep(): the check of the page shown
validateStep ==
  IF currentStep = 1
  THEN Trim(formData.title) # "" /\ Trim(formData.description) # ""
  ELSE IF currentStep = 2
       THEN Len(NonBlank(formData.ingredients, "ingredient_name", 1)) # 0
       ELSE Len(NonBlank(formData.steps, "instruction", 1)) # 0

\* nextStep going on to the next page without validateStep().
nextStepUnchecked ==
  /\ formPc = "form"
  /\ currentStep < 3
  /\ currentStep' = currentStep + 1
  /\ UNCHANGED <<formData, formPc, recipes, recipe_ingredients, recipe_steps,
                 planVars, aggVars, detailVars, moreVars>>

\* nextStep, the button of pages 1 and 2: on to the next page when the page
\* validates, setCurrentStep((prev) => Math.min(prev + 1, 3)), else an alert.
nextStep ==
  /\ formPc = "form"
  /\ currentStep < 3
  /\ IF validateStep
     THEN /\ currentStep' = IF currentStep + 1 < 3 THEN currentStep + 1 ELSE 3
          /\ UNCHANGED formPc
     ELSE /\ formPc' = "alert"
          /\ UNCHANGED currentStep
  /\ UNCHANGED <<formData, recipes, recipe_ingredients, recipe_steps,
                 planVars, aggVars, detailVars, moreVars>>

\* previousStep, the button of pages 2 and 3:
\* setCurrentStep((prev) => Math.max(prev - 1, 1))
previousStep ==
  /\ formPc = "form"
  /\ currentStep > 1
  /\ currentStep' = IF currentStep - 1 > 1 THEN currentStep - 1 ELSE 1
  /\ UNCHANGED <<formData, formPc, recipes, recipe_ingredients, recipe_steps,
                 planVars, aggVars, detailVars, moreVars>>

\* The user closes the alert of the form.
DismissFormAlert ==
  /\ formPc = "alert"
  /\ formPc' = "form"
  /\ calls' = [p \in Procs |-> <<>>]
  /\ UNCHANGED <<currentStep, formData, recipes, recipe_ingredients, recipe_steps,
                 planVars, aggVars, detailVars, moreRest>>

\* handleSave up to its first request: validation, getUser, and the insert
\* into recipes issued.
handleSave(p) ==
  /\ formPc = "form"
  /\ currentStep = 3
  /\ Cardinality(recipes) < MaxRecipes
  /\ IF ~validateStep
     THEN /\ formPc' = "alert"
          /\ calls' = [calls EXCEPT ![p] = <<>>]
     ELSE \E u \in GetUser(p) :
            IF u = NoUser
            THEN /\ formPc' = "alert"
                 /\ calls' = [calls EXCEPT ![p] = <<"auth.getUser">>]
            ELSE /\ formPc' = "recipe"
                 /\ calls' = [calls EXCEPT ![p] = <<"auth.getUser", "recipes.insert">>]
  /\ UNCHANGED <<currentStep, formData, recipes, recipe_ingredients, recipe_steps,
                 planVars, aggVars, detailVars, moreRest>>

\* The insert policy of recipes: the row is the requesting user's own; the
\* title is NOT NULL.
RecipesAccepts(row, uid) == uid \in Users /\ row.user_id = uid

\* recipe_ingredients and recipe_steps have row-level security enabled and a
\* SELECT policy only: no policy admits an insert by the client.
RecipeIngredientsAccepts(rows, uid) == FALSE
RecipeStepsAccepts(rows, uid) == FALSE

\* formData.ingredients.filter((ing) => ing.ingredient_name.trim())
\*   .map((ing) => ({recipe_id: recipe.id, ingredient_name: ing.ingredient_name, ...}))
validIngredients(form, id) ==
  LET named == NonBlank(form.ingredients, "ingredient_name", 1)
  IN [j \in 1..Len(named) |->
        [recipe_id |-> id, ingredient_name |-> named[j].ingredient_name]]

\* formData.steps.filter((step) => step.instruction.trim())
\*   .map((step) => ({recipe_id: recipe.id, step_number: step.step_number, ...}))
validSteps(form, id) ==
  LET told == NonBlank(form.steps, "instruction", 1)
  IN [j \in 1..Len(told) |->
        [recipe_id |-> id, step_number |-> told[j].step_number,
         instruction |-> told[j].instruction]]

\* handleSave: the response to the insert into recipes; an error is thrown
\* and alerted, else the insert of the named ingredients is issued, or, with
\* none, that of the steps.
SaveRecipe(p, failures) ==
  /\ formPc = "recipe"
  /\ \E fail \in failures :
       LET row == [id |-> Cardinality(recipes) + 1,
                   user_id |-> session[p],
                   title |-> formData.title,
                   servings |-> OrElse(parseInt(formData.servings), 1),
                   is_public |-> formData.is_public]
       IN IF ~fail /\ RecipesAccepts(row, session[p])
          THEN /\ recipes' = recipes \cup {row}
               /\ formPc' = "children"
               /\ calls' = [calls EXCEPT ![p] =
                    IF Len(validIngredients(formData, row.id)) > 0
                    THEN Append(@, "recipe_ingredients.insert")
                    ELSE IF Len(validSteps(formData, row.id)) > 0
                         THEN Append(@, "recipe_steps.insert")
                         ELSE @]
          ELSE /\ recipes' = recipes
               /\ formPc' = "alert"
               /\ UNCHANGED calls
  /\ UNCHANGED <<currentStep, formData, recipe_ingredients, recipe_steps,
                 planVars, aggVars, detailVars, moreRest>>

\* SaveChildren deleting the recipe row when an insert that follows it fails.
SaveChildrenCompensating(p, failures) ==
  /\ formPc = "children"
  /\ recipes' = {r \in recipes : r.id # Cardinality(recipes)}
  /\ formPc' = "alert"
  /\ UNCHANGED <<currentStep, formData, recipe_ingredients, recipe_steps,
                 planVars, aggVars, detailVars, moreVars>>

\* handleSave after the recipe is stored: the responses to the insert of the
\* named ingredients and, when that went through, of the non-blank steps. An
\* error is thrown and alerted; nothing is done about the recipe row.
SaveChildren(p, failures) ==
  /\ formPc = "children"
  /\ \E failI, failS \in failures :
       LET id == Cardinality(recipes)
           Rows(rows) == {rows[j] : j \in 1..Len(rows)}
           ings == Rows(validIngredients(formData, id))
           steps == Rows(validSteps(formData, id))
           okI == ings = {}
                    \/ (~failI /\ RecipeIngredientsAccepts(ings, session[p]))
           okS == steps = {}
                    \/ (~failS /\ RecipeStepsAccepts(steps, session[p]))
       IN /\ recipe_ingredients' = IF okI THEN recipe_ingredients \cup ings
                                   ELSE recipe_ingredients
          /\ recipe_steps' = IF okI /\ okS THEN recipe_steps \cup steps
                             ELSE recipe_steps
          /\ formPc' = IF okI /\ okS THEN "saved" ELSE "alert"
          /\ calls' = [calls EXCEPT ![p] =
               IF ings # {} /\ okI /\ steps # {}
               THEN Append(@, "recipe_steps.insert") ELSE @]
  /\ UNCHANGED <<currentStep, formData, recipes, planVars, aggVars, detailVars, moreRest>>

\* router.back(), from the Cancel button or the OK of the success alert: the
\* form is left and its state is gone.
CloseForm ==
  /\ formPc \in {"form", "saved"}
  /\ currentStep' = 1
  /\ formData' = NewForm
  /\ formPc' = "form"
  /\ calls' = [p \in Procs |-> <<>>]
  /\ UNCHANGED <<recipes, recipe_ingredients, recipe_steps,
                 planVars, aggVars, detailVars, moreRest>>

\* ------------------------------------------------- recipes screen (tabs)
\* The texts typed into a field of the recipes or the shopping screen.
FieldTexts == { <<>>, <<" ">>, <<"x">> }

\* useState({title: '', description: '', ..., servings: '', ...})
NoNewRecipe == [title |-> <<>>, description |-> <<>>, servings |-> <<>>]

\* What the handlers of the recipes and shopping screens leave alone.
QuickRest ==
  UNCHANGED <<tz, app, now, ticks, session, meal_plans, entries, selectedDate, view,
              pc, op, date, widx, mpId, error, aggVars, detailVars, dialogVars, screen,
              currentStep, formData, formPc, recipe_ingredients, recipe_steps,
              policyVars, layoutVars>>

\* onChangeText={(text) => setNewRecipe({...newRecipe, [field]: text})}
setNewRecipe(field, text) ==
  /\ addPc = "modal"
  /\ newRecipe' = [newRecipe EXCEPT ![field] = text]
  /\ UNCHANGED <<addPc, newItemName, itemPc, shopping_lists, shopping_list_items,
                 calls, user, recipes>>
  /\ QuickRest

\* handleAddRecipe: without a title or a description an alert and nothing
\* more; else getUser, and the insert into recipes issued.
handleAddRecipe(p) ==
  /\ addPc = "modal"
  /\ Cardinality(recipes) < MaxRecipes
  /\ IF Missing(newRecipe.title) \/ Missing(newRecipe.description)
     THEN /\ addPc' = "alert"
          /\ calls' = [calls EXCEPT ![p] = <<>>]
          /\ UNCHANGED user
     ELSE /\ addPc' = "insert"
          /\ calls' = [calls EXCEPT ![p] = <<"auth.getUser", "recipes.insert">>]
          /\ \E u \in GetUser(p) : user' = [user EXCEPT ![p] = u]
  /\ UNCHANGED <<newRecipe, newItemName, itemPc, shopping_lists, shopping_list_items,
                 recipes>>
  /\ QuickRest

\* handleAddRecipe: the response to the insert into recipes; an error is
\* thrown and alerted, a success is announced and the modal emptied.
AddRecipe(p, failures) ==
  /\ addPc = "insert"
  /\ \E fail \in failures :
       LET row == [id |-> Cardinality(recipes) + 1,
                   user_id |-> user[p],
                   title |-> newRecipe.title,
                   servings |-> OrElse(parseInt(newRecipe.servings), 1),
                   is_public |-> FALSE]
       IN IF ~fail /\ RecipesAccepts(row, user[p])
          THEN /\ recipes' = recipes \cup {row}
               /\ newRecipe' = NoNewRecipe
               /\ addPc' = "added"
          ELSE /\ recipes' = recipes
               /\ UNCHANGED newRecipe
               /\ addPc' = "alert"
  /\ user' = [user EXCEPT ![p] = NoUser]
  /\ UNCHANGED <<newItemName, itemPc, shopping_lists, shopping_list_items, calls>>
  /\ QuickRest

\* The user closes the alert of the recipes screen.
DismissAddAlert ==
  /\ addPc \in {"alert", "added"}
  /\ addPc' = "modal"
  /\ calls' = [p \in Procs |-> <<>>]
  /\ UNCHANGED <<newRecipe, newItemName, itemPc, shopping_lists, shopping_list_items,
                 user, recipes>>
  /\ QuickRest

\* ------------------------------------------------------- shopping screen
\* The insert policies of shopping_lists and shopping_list_items: the list is
\* the requesting user's own; the item goes into a list of the requesting user.
ShoppingListsAccepts(row, uid) == uid \in Users /\ row.user_id = uid
ShoppingListItemsAccepts(lists, row, uid) ==
  \E l \in lists : Id(l.id) = row.shopping_list_id /\ l.user_id = uid

setNewItemName(text) ==
  /\ itemPc = "form"
  /\ newItemName' = text
  /\ UNCHANGED <<newRecipe, addPc, itemPc, shopping_lists, shopping_list_items,
                 calls, user, recipes>>
  /\ QuickRest

\* handleAddItem: without an item name an alert and nothing more; else
\* getUser, and the first request issued: the select of the user's list or,
\* without a user, the insert of the item.
handleAddItem(p) ==
  /\ itemPc = "form"
  /\ Cardinality(shopping_list_items) < MaxItems
  /\ IF Missing(newItemName)
     THEN /\ itemPc' = "alert"
          /\ calls' = [calls EXCEPT ![p] = <<>>]
          /\ UNCHANGED user
     ELSE /\ itemPc' = "request"
          /\ \E u \in GetUser(p) :
               /\ user' = [user EXCEPT ![p] = u]
               /\ calls' = [calls EXCEPT ![p] =
                    <<"auth.getUser",
                      IF u = NoUser THEN "shopping_list_items.insert"
                      ELSE "shopping_lists.select">>]
  /\ UNCHANGED <<newRecipe, addPc, newItemName, shopping_lists, shopping_list_items,
                 recipes>>
  /\ QuickRest

\* handleAddItem from its first response on: getOrCreateShoppingList returns
\* the list found, or the one it inserts, or nothing (its errors are dropped),
\* and the item is inserted; an error of that insert is thrown and alerted.
AddItem(p, failures) ==
  /\ itemPc = "request"
  /\ \E failSelect, failList, failItem \in failures :
       LET u == user[p]
           mine == {l \in shopping_lists : l.user_id = u}
           existingList == IF failSelect THEN [data |-> Null, error |-> "failed"]
                           ELSE maybeSingle(mine)
           searched == u # NoUser
           created == searched /\ existingList.data = Null
           list == [id |-> Cardinality(shopping_lists) + 1, user_id |-> u]
           okList == /\ created
                     /\ ~failList
                     /\ ShoppingListsAccepts(list, u)
                     /\ Cardinality(shopping_lists) < MaxLists
           lists == IF okList THEN shopping_lists \cup {list} ELSE shopping_lists
           listId == IF ~searched THEN Null
                     ELSE IF ~created THEN existingList.data
                          ELSE IF okList THEN Id(list.id) ELSE Undefined
           item == [id |-> Cardinality(shopping_list_items) + 1,
                    shopping_list_id |-> listId,
                    product_name |-> newItemName]
           okItem == ~failItem /\ ShoppingListItemsAccepts(lists, item, u)
       IN /\ shopping_lists' = lists
          /\ shopping_list_items' = IF okItem THEN shopping_list_items \cup {item}
                                    ELSE shopping_list_items
          /\ newItemName' = IF okItem THEN <<>> ELSE newItemName
          /\ itemPc' = IF okItem THEN "form" ELSE "alert"
          /\ calls' = [calls EXCEPT ![p] =
               IF okItem THEN <<>>
               ELSE @ \o (IF created THEN <<"shopping_lists.insert">> ELSE <<>>)
                      \o (IF searched THEN <<"shopping_list_items.insert">> ELSE <<>>)]
  /\ user' = [user EXCEPT ![p] = NoUser]
  /\ UNCHANGED <<newRecipe, addPc, recipes>>
  /\ QuickRest

\* The user closes the alert of the shopping screen.
DismissItemAlert ==
  /\ itemPc = "alert"
  /\ itemPc' = "form"
  /\ calls' = [p \in Procs |-> <<>>]
  /\ UNCHANGED <<newRecipe, addPc, newItemName, shopping_lists, shopping_list_items,
                 user, recipes>>
  /\ QuickRest

\* ------------------------------------------------- row-level security
\* The tables of the schema that clients write rows of, and the objects of
\* the storage bucket.
DbTables == {"meal_plans", "meal_plan_entries", "recipes"}

Table(name) ==
  CASE name = "meal_plans" -> meal_plans
    [] name = "meal_plan_entries" -> entries
    [] name = "recipes" -> recipes
    [] name = "storage.objects" -> objects

\* The policy of meal_plan_entries for DELETE: the entry's plan is the
\* requesting user's.
EntriesDeletePolicy(plans, row, uid) ==
  \E pl \in plans : Id(pl.id) = row.meal_plan_id /\ pl.user_id = uid

\* The policies of storage.objects, for the role authenticated: the object
\* is in the bucket 'recipes'.
StoragePolicy(cmd, row, uid) == row.bucket_id = "recipes"

\* Policy with the DELETE policy of recipes taken from the SELECT policy.
PolicyPublicDelete(plans, table, cmd, row, uid) ==
  CASE table = "meal_plans" -> uid = row.user_id
    [] table = "meal_plan_entries" ->
         \E pl \in plans : Id(pl.id) = row.meal_plan_id /\ pl.user_id = uid
    [] table = "recipes" /\ cmd \in {"select", "delete"} -> uid = row.user_id \/ row.is_public
    [] table = "recipes" -> uid = row.user_id
    [] table = "storage.objects" -> StoragePolicy(cmd, row, uid)

\* Row-level security is enabled on every table: a command of the role
\* authenticated reaches a row when the expression of the table's policy for
\* the command holds of it (USING for the row as stored, WITH CHECK, the same
\* expression, for the row as written), with auth.uid() = uid and `plans`
\* the rows of meal_plans.
Policy(plans, table, cmd, row, uid) ==
  CASE table = "meal_plans" -> uid = row.user_id
    [] table = "meal_plan_entries" /\ cmd = "insert" -> EntriesAccepts(plans, row, uid)
    [] table = "meal_plan_entries" /\ cmd = "delete" -> EntriesDeletePolicy(plans, row, uid)
    [] table = "meal_plan_entries" ->
         \E pl \in plans : Id(pl.id) = row.meal_plan_id /\ pl.user_id = uid
    [] table = "recipes" /\ cmd = "select" -> uid = row.user_id \/ row.is_public
    [] table = "recipes" -> uid = row.user_id
    [] table = "storage.objects" -> StoragePolicy(cmd, row, uid)

\* The user a row belongs to: its user_id, the user_id of the plan of an
\* entry, the uploader of an object.
Owner(table, row) ==
  CASE table = "meal_plan_entries" ->
         IF \E pl \in meal_plans : Id(pl.id) = row.meal_plan_id
         THEN (CHOOSE pl \in meal_plans : Id(pl.id) = row.meal_plan_id).user_id
         ELSE NoUser
    [] table = "storage.objects" -> row.owner
    [] OTHER -> row.user_id

\* The rows a request can name: every owner, plan, recipe and visibility.
Candidates(table) ==
  CASE table = "meal_plans" ->
         {[id |-> i, user_id |-> o, start_date |-> StartDay,
           end_date |-> StartDay + PlanSpanDays] : i \in 1..MaxPlans, o \in Users}
    [] table = "meal_plan_entries" ->
         {[id |-> i, meal_plan_id |-> Id(k), meal_date |-> StartDay,
           recipe_id |-> r, servings |-> 1] :
            i \in 1..MaxEntries, k \in 1..MaxPlans,
            r \in {Null} \cup {Id(n) : n \in 1..MaxRecipes}}
    [] table = "recipes" ->
         {[id |-> i, user_id |-> o, title |-> "x", servings |-> 1, is_public |-> b] :
            i \in 1..MaxRecipes, o \in Users, b \in BOOLEAN}
    [] table = "storage.objects" ->
         {[id |-> i, owner |-> o, bucket_id |-> "recipes", version |-> v] :
            i \in 1..MaxObjects, o \in Users, v \in 1..2}

\* The foreign keys of a row point at rows that are there.
References(table, row) ==
  CASE table = "meal_plan_entries" ->
         /\ \E pl \in meal_plans : Id(pl.id) = row.meal_plan_id
         /\ row.recipe_id = Null \/ \E r \in recipes : Id(r.id) = row.recipe_id
    [] OTHER -> TRUE

\* What a request leaves alone; the tables are set by the request.
PolicyRest ==
  UNCHANGED <<tz, app, now, ticks, session, selectedDate, view, pc, op, user, date,
              widx, mpId, error, aggVars, detailVars, currentStep, formData, formPc,
              recipe_ingredients, recipe_steps, inputVars, layoutVars>>

\* No request granted yet, or the last one refused: a refused request changes
\* no row.
NoRequest ==
  [by |-> NoUser, table |-> "none", cmd |-> "none", granted |-> FALSE, owner |-> NoUser]

\* Table `table` holds `rows` after the request, and entries `ents`.
Stored(table, rows, ents) ==
  /\ meal_plans' = IF table = "meal_plans" THEN rows ELSE meal_plans
  /\ entries' = IF table = "meal_plan_entries" THEN rows ELSE ents
  /\ recipes' = IF table = "recipes" THEN rows ELSE recipes
  /\ objects' = IF table = "storage.objects" THEN rows ELSE objects

\* A client signed in as u sends an insert of `row` (for an object, uploads it).
Insert(u, table, row) ==
  /\ ~\E old \in Table(table) : old.id = row.id
  /\ LET granted == Policy(meal_plans, table, "insert", row, u) /\ References(table, row)
     IN /\ Stored(table, IF granted THEN Table(table) \cup {row} ELSE Table(table), entries)
        /\ request' = IF granted
                     THEN [by |-> u, table |-> table, cmd |-> "insert", granted |-> TRUE,
                           owner |-> Owner(table, row)]
                     ELSE NoRequest
  /\ PolicyRest

\* A client signed in as u sends an update of the row `old` to `new`: rows
\* the policy does not reach are passed over.
Update(u, table, old, new) ==
  /\ old \in Table(table)
  /\ new.id = old.id
  /\ new # old
  /\ LET granted == /\ Policy(meal_plans, table, "update", old, u)
                    /\ Policy(meal_plans, table, "update", new, u)
                    /\ References(table, new)
     IN /\ Stored(table, IF granted THEN (Table(table) \ {old}) \cup {new}
                         ELSE Table(table), entries)
        /\ request' = IF granted
                     THEN [by |-> u, table |-> table, cmd |-> "update", granted |-> TRUE,
                           owner |-> Owner(table, old)]
                     ELSE NoRequest
  /\ PolicyRest

\* A client signed in as u sends a delete of the row `old`. With a plan go
\* its entries (ON DELETE CASCADE); the entries of a recipe lose their
\* recipe_id (ON DELETE SET NULL).
Delete(u, table, old) ==
  /\ old \in Table(table)
  /\ LET granted == Policy(meal_plans, table, "delete", old, u)
         ents == IF ~granted THEN entries
                 ELSE IF table = "meal_plans"
                      THEN {e \in entries : e.meal_plan_id # Id(old.id)}
                      ELSE IF table = "recipes"
                           THEN {IF e.recipe_id = Id(old.id)
                                 THEN [e EXCEPT !.recipe_id = Null] ELSE e : e \in entries}
                           ELSE entries
     IN /\ Stored(table, IF granted THEN Table(table) \ {old} ELSE Table(table), ents)
        /\ request' = IF granted
                     THEN [by |-> u, table |-> table, cmd |-> "delete", granted |-> TRUE,
                           owner |-> Owner(table, old)]
                     ELSE NoRequest
  /\ PolicyRest

InitPlanner ==
  /\ tz \in Zones
  /\ app \in {"today", "planner"}
  /\ now = StartDay * 24 + StartHour
  /\ ticks = 0
  /\ session = [p \in Procs |-> "u1"]
  /\ meal_plans = {}
  /\ entries = {}
  /\ selectedDate = [p \in Procs |-> now]
  /\ view = [p \in Procs |-> "day"]
  /\ pc = [p \in Procs |-> "idle"]
  /\ op = [p \in Procs |-> "none"]
  /\ user = [p \in Procs |-> NoUser]
  /\ date = [p \in Procs |-> 0]
  /\ widx = [p \in Procs |-> 0]
  /\ mpId = [p \in Procs |-> Null]
  /\ error = [p \in Procs |-> "none"]

\* useState([]), useState({}), and the first render.
InitAggIdle ==
  /\ meals = <<>>
  /\ weekMeals = <<>>
  /\ shown = Render(<<>>, <<>>)

\* useState(null), useState(1), useState([])
InitDetailIdle ==
  /\ recipe = NoRecipeYet
  /\ servings = Num(1)
  /\ ingredients = <<>>

\* useState(1), useState(false), useState<RecipeFormData>({...}); no recipes.
InitFormIdle ==
  /\ currentStep = 1
  /\ formData = NewForm
  /\ formPc = "form"
  /\ recipes = {}
  /\ recipe_ingredients = {}
  /\ recipe_steps = {}

\* The add-meal dialog with the recipe `id` picked, or none: useState(''),
\* useState('1'); the modals of the recipes and shopping screens as first
\* rendered; no shopping lists.
InitInputWith(id) ==
  /\ selectedRecipeId = [p \in Procs |-> id]
  /\ mealServings = [p \in Procs |-> <<"1">>]
  /\ calls = [p \in Procs |-> <<>>]
  /\ newRecipe = NoNewRecipe
  /\ addPc = "modal"
  /\ newItemName = <<>>
  /\ itemPc = "form"
  /\ shopping_lists = {}
  /\ shopping_list_items = {}

\* ------------------------------------------------------------ root layout
\* !!session, as kept in isSignedIn
NotNot(held) == IF held THEN "true" ELSE "false"

\* The effect on [isSignedIn, segments]: the group shown after it has run.
Redirect(signedIn, group) ==
  IF signedIn = "null" THEN group
  ELSE IF signedIn = "false" /\ group # "(auth)" THEN "(auth)"
       ELSE IF signedIn = "true" /\ group = "(auth)" THEN "(tabs)"
            ELSE group

\* What the root layout leaves alone.
LayoutRest ==
  UNCHANGED <<planVars, aggVars, detailVars, formVars, inputVars, policyVars>>

\* RootLayout is mounted on a device that holds a session or none, with a
\* route of either group shown: checkSession() calls getSession() and the
\* listener is subscribed.
RootLayout(session0, group) ==
  /\ sessionReply = "unsent"
  /\ authed' = session0
  /\ segments' = group
  /\ sessionReply' = "pending"
  /\ UNCHANGED <<isSignedIn, inbox, authChanges>>
  /\ LayoutRest

\* supabase.auth.getSession() reads the session the client holds.
getSession ==
  /\ sessionReply = "pending"
  /\ sessionReply' = NotNot(authed)
  /\ UNCHANGED <<authed, isSignedIn, segments, inbox, authChanges>>
  /\ LayoutRest

\* checkSession after its await: setIsSignedIn(!!session), and the effect.
checkSession ==
  /\ sessionReply \in {"true", "false"}
  /\ isSignedIn' = sessionReply
  /\ segments' = Redirect(sessionReply, segments)
  /\ sessionReply' = "done"
  /\ UNCHANGED <<authed, inbox, authChanges>>
  /\ LayoutRest

\* The user signs in on a screen of the (auth) group, or the session is
\* ended: the client holds the new state and has an event for the listener.
AuthChange ==
  /\ sessionReply # "unsent"
  /\ authChanges < MaxAuthChanges
  /\ authed \/ segments = "(auth)"
  /\ authed' = ~authed
  /\ inbox' = Append(inbox, NotNot(~authed))
  /\ authChanges' = authChanges + 1
  /\ UNCHANGED <<isSignedIn, segments, sessionReply>>
  /\ LayoutRest

\* The listener of onAuthStateChange is called with the oldest event not yet
\* handed over: setIsSignedIn(!!session), and the effect.
onAuthStateChange ==
  /\ inbox # <<>>
  /\ isSignedIn' = Head(inbox)
  /\ segments' = Redirect(Head(inbox), segments)
  /\ inbox' = Tail(inbox)
  /\ UNCHANGED <<authed, sessionReply, authChanges>>
  /\ LayoutRest

\* No object stored and no request sent; the root layout not mounted.
InitBackground ==
  /\ objects = {}
  /\ request = NoRequest
  /\ authed = TRUE
  /\ isSignedIn = "null"
  /\ segments = "(tabs)"
  /\ sessionReply = "unsent"
  /\ inbox = <<>>
  /\ authChanges = 0

InitInputIdle == InitInputWith(<<>>)

Init ==
  /\ InitPlanner
  /\ InitAggIdle
  /\ InitDetailIdle
  /\ InitFormIdle
  /\ InitInputIdle
  /\ InitBackground
  /\ screen = "planner"

\* The same with a recipe picked in the add-meal dialog of each screen.
InitRace ==
  /\ InitPlanner
  /\ InitAggIdle
  /\ InitDetailIdle
  /\ InitFormIdle
  /\ \E id \in RecipeIds : InitInputWith(id)
  /\ InitBackground
  /\ screen = "planner"

\* What a screen showing the day does when it loads.
DayStep(p, failures) ==
  \/ Mount(p)
  \/ SelectPlan(p, failures)
  \/ InsertPlan(p, failures)
  \/ LoadEntries(p)

\* Adding a meal.
AddStep(p) ==
  \/ handleAddMeal(p)
  \/ InsertEntry(p, BOOLEAN)
  \/ DismissAlert(p)

\* What the week view adds.
WeekStep(p) ==
  \/ \E v \in {"day", "week"} : SetView(p, v)
  \/ WeekEntries(p)

\* One screen loading its views, its handlers running one after another (none
\* is started while another is in flight), over days and accounts.
Next ==
  \/ Tick
  \/ \E u \in Users : handleAuth("p1", u)
  \/ DayStep("p1", BOOLEAN)
  \/ WeekStep("p1")

Spec == Init /\ [][Next]_vars

\* The same with a store that answers every request.
NextReliable ==
  \/ Tick
  \/ \E u \in Users : handleAuth("p1", u)
  \/ DayStep("p1", {FALSE})
  \/ WeekStep("p1")

SpecReliable == Init /\ [][NextReliable]_vars

\* One screen with a store that answers every request: meals are added and
\* the day and the week are loaded, one handler after another.
NextAdd ==
  \/ \E id \in RecipeIds : setSelectedRecipeId("p1", id)
  \/ DayStep("p1", {FALSE})
  \/ WeekStep("p1")
  \/ handleAddMeal("p1")
  \/ InsertEntry("p1", {FALSE})
  \/ DismissAlert("p1")

SpecAdd == Init /\ [][NextAdd]_vars

\* Two screens of one user on one day, loading and adding meals (a recipe is
\* picked in each dialog), their
\* requests interleaved; the second screen shows the day.
NextRace ==
  \/ WeekStep("p1")
  \/ \E p \in Procs : DayStep(p, BOOLEAN) \/ AddStep(p)

SpecRace == InitRace /\ [][NextRace]_vars

\* The planner of one device, its day and week lists reloaded after each
\* change of the stored entries.
InitAgg ==
  /\ Init
  /\ tz = [std |-> 0, shift |-> 0, at |-> 0]
  /\ app = "planner"

NextAgg ==
  \/ \E e \in AddedEntries : LoadDayAdded(e)
  \/ \E i \in 1..Len(meals) : LoadDayDeleted(i)
  \/ \E i \in 1..Len(meals) : LoadDayRecipeGone(i)
  \/ \E k \in WeekKeys : \E e \in AddedEntries : LoadWeekAdded(k, e)
  \/ \E k \in WeekKeys : \E i \in 1..Len(WeekData[k]) : LoadWeekDeleted(k, i)
  \/ \E k \in WeekKeys : \E i \in 1..Len(WeekData[k]) : LoadWeekRecipeGone(k, i)

SpecAgg == InitAgg /\ [][NextAgg]_vars

\* One screen opened at one hour or another of an evening and the night after
\* it, the store answering every request.
NextWeek ==
  \/ HourPasses
  \/ DayStep("p1", {FALSE})
  \/ WeekStep("p1")

SpecWeek == Init /\ [][NextWeek]_vars

\* The recipe creation form of one device, filled in, paged through and saved.
NextForm ==
  \/ \E f \in {"title", "description"} : \E t \in Texts : updateFormData(f, t)
  \/ addIngredient
  \/ \E i \in 1..Len(formData.ingredients) : removeIngredient(i)
  \/ \E i \in 1..Len(formData.ingredients) : \E t \in Texts : updateIngredient(i, t)
  \/ addStep
  \/ \E i \in 1..Len(formData.steps) : removeStep(i)
  \/ \E i \in 1..Len(formData.steps) : \E t \in Texts : updateStep(i, t)
  \/ nextStep
  \/ previousStep
  \/ DismissFormAlert
  \/ handleSave("p1")
  \/ SaveRecipe("p1", BOOLEAN)
  \/ SaveChildren("p1", BOOLEAN)
  \/ CloseForm

SpecForm == InitAgg /\ [][NextForm]_vars

\* The same form with every request answered by the store: no request is lost
\* and no insert fails for a reason other than a policy.
NextSave ==
  \/ \E f \in {"title", "description"} : \E t \in Texts : updateFormData(f, t)
  \/ addIngredient
  \/ \E i \in 1..Len(formData.ingredients) : removeIngredient(i)
  \/ \E i \in 1..Len(formData.ingredients) : \E t \in Texts : updateIngredient(i, t)
  \/ addStep
  \/ \E i \in 1..Len(formData.steps) : removeStep(i)
  \/ \E i \in 1..Len(formData.steps) : \E t \in Texts : updateStep(i, t)
  \/ nextStep
  \/ previousStep
  \/ DismissFormAlert
  \/ handleSave("p1")
  \/ SaveRecipe("p1", {FALSE})
  \/ SaveChildren("p1", {FALSE})
  \/ CloseForm

SpecSave == InitAgg /\ [][NextSave]_vars

\* The recipe detail screen of one device: a stored recipe is opened, its
\* serving count stepped, and the screen left.
NextDetail ==
  \/ \E srv \in StoredServings : \E ings \in StoredIngredients : loadRecipe(srv, ings)
  \/ pressMinus
  \/ pressPlus
  \/ Back

SpecDetail == InitAgg /\ [][NextDetail]_vars

\* One device whose user works in one of its screens: meals are added in the
\* planner, recipes in the creation form or in the modal of the recipes
\* screen, items in the shopping screen; the store may fail any request.
InitInput ==
  /\ InitPlanner
  /\ tz = [std |-> 0, shift |-> 0, at |-> 0]
  /\ app = "planner"
  /\ InitAggIdle
  /\ InitDetailIdle
  /\ InitFormIdle
  /\ InitInputIdle
  /\ InitBackground
  /\ screen \in {"planner", "create", "recipes", "shopping"}

NextInput ==
  \/ /\ screen = "planner"
     /\ \/ \E id \in RecipeIds : setSelectedRecipeId("p1", id)
        \/ Cancel("p1")
        \/ DayStep("p1", BOOLEAN)
        \/ AddStep("p1")
  \/ /\ screen = "create"
     /\ NextForm
  \/ /\ screen = "recipes"
     /\ \/ \E f \in {"title", "description"} : \E text \in FieldTexts :
             setNewRecipe(f, text)
        \/ handleAddRecipe("p1")
        \/ AddRecipe("p1", BOOLEAN)
        \/ DismissAddAlert
  \/ /\ screen = "shopping"
     /\ \/ \E text \in FieldTexts : setNewItemName(text)
        \/ handleAddItem("p1")
        \/ AddItem("p1", BOOLEAN)
        \/ DismissItemAlert

SpecInput == InitInput /\ [][NextInput]_vars

\* The same with the servings fields of the three screens typed into.
NextServings ==
  \/ NextInput
  \/ \E text \in ServingsTexts :
       \/ screen = "planner" /\ setServings("p1", text)
       \/ screen = "create" /\ updateFormData("servings", text)
       \/ screen = "recipes" /\ setNewRecipe("servings", text)

SpecServings == InitInput /\ [][NextServings]_vars

\* The store as the migrations leave it, every table empty, and the app not
\* started.
InitPolicy == InitInput /\ screen = "planner"

\* The root layout from its mount on, the response of getSession() and the
\* auth events reaching it in any order.
NextLayout ==
  \/ \E session0 \in BOOLEAN : \E group \in {"(auth)", "(tabs)"} :
       RootLayout(session0, group)
  \/ getSession
  \/ checkSession
  \/ AuthChange
  \/ onAuthStateChange

SpecLayout == InitPolicy /\ [][NextLayout]_vars

\* The clients of two users sending inserts, updates and deletes of plans,
\* entries and recipes of every owner to the store; an update names its row
\* by id and leaves the id.
NextPolicy ==
  \E u \in Users : \E table \in DbTables :
    \/ \E row \in Candidates(table) : Insert(u, table, row)
    \/ \E old \in Table(table) : \E new \in Candidates(table) :
         new.id = old.id /\ Update(u, table, old, new)
    \/ \E old \in Table(table) : Delete(u, table, old)

SpecPolicy == InitPolicy /\ [][NextPolicy]_vars

\* The same for the objects of the bucket 'recipes': an upload is owned by
\* the user who sends it, an update replaces the content of an object.
NextStorage ==
  \E u \in Users :
    \/ \E row \in Candidates("storage.objects") :
         row.owner = u /\ Insert(u, "storage.objects", row)
    \/ \E old \in objects : \E new \in Candidates("storage.objects") :
         new.owner = old.owner /\ Update(u, "storage.objects", old, new)
    \/ \E old \in objects : Delete(u, "storage.objects", old)

SpecStorage == InitPolicy /\ [][NextStorage]_vars

\* ---------------------------------------------------------------- claims
\* The plans of user u whose window, bounds included, holds day d.
Covers(pl, u, d) == pl.user_id = u /\ pl.start_date <= d /\ d <= pl.end_date

\* Screen p's select of meal_plans is answered by the store in this step.
SelectAnswered(p) == pc[p] = "select" /\ pc'[p] # "select" /\ error'[p] # "failed"

\* The plan created last.
LatestPlan == CHOOSE pl \in meal_plans : pl.id = Cardinality(meal_plans)

\* C1: a plan inserted by plan resolution for a date starts on that date and
\* ends 6 days later, so that it covers exactly 7 calendar days.
C1_SevenDayWindow ==
  [][\A pl \in meal_plans' \ meal_plans :
       \E p \in Procs : /\ pc[p] = "insert"
                        /\ pl.start_date = date[p]
                        /\ pl.end_date = date[p] + 6]_vars

\* C2: after a resolution has created a plan, a resolution that follows it (no
\* other in flight) for the same user and a date inside the created plan's
\* window, the store answering, returns that plan's id and inserts nothing.
C2_SecondResolutionSamePlan ==
  [][\A p \in Procs :
       (/\ SelectAnswered(p)
        /\ meal_plans # {}
        /\ Covers(LatestPlan, user[p], date[p]))
       => (/\ pc'[p] = "entries"
           /\ mpId'[p] = Id(LatestPlan.id)
           /\ meal_plans' = meal_plans)]_vars

\* C3: when the select is answered and exactly one plan of the user covers the
\* date, bounds included, the resolution returns that plan's id and the
\* meal_plans table is left as it was.
C3_SingleMatchReturned ==
  [][\A p \in Procs :
       LET match == {pl \in meal_plans : Covers(pl, user[p], date[p])}
       IN (SelectAnswered(p) /\ Cardinality(match) = 1)
          => (/\ pc'[p] = "entries"
              /\ \E pl \in match : mpId'[p] = Id(pl.id)
              /\ meal_plans' = meal_plans)]_vars

\* C3 witness: a resolution has returned a plan that began before the date
\* asked for, a plan it found and did not create.
C3_FoundEarlierPlan ==
  \E p \in Procs : \E pl \in meal_plans :
    /\ pc[p] = "entries"
    /\ mpId[p] = Id(pl.id)
    /\ pl.start_date < date[p]
    /\ Cardinality({q \in meal_plans : Covers(q, user[p], date[p])}) = 1

\* C4: a plan is inserted only when no plan of that user covers the date asked
\* for, in the table as it is when the insert is made.
C4_InsertOnlyWhenUncovered ==
  [][\A pl \in meal_plans' \ meal_plans :
       ~\E old \in meal_plans : Covers(old, pl.user_id, pl.start_date)]_vars

\* C5: the store accepts every plan insert that reaches it, whatever plans the
\* table holds: no constraint of the schema and no check of the client stands
\* between two resolutions that both saw no plan and their two inserts.
C5_NoUniquenessGuard ==
  [][\A p \in Procs :
       (pc[p] = "insert" /\ pc'[p] # "insert" /\ error'[p] # "failed")
       => \E pl \in meal_plans' \ meal_plans :
            pl.user_id = user[p] /\ pl.start_date = date[p]]_vars

\* C5 witness: two resolutions of one user for one date, both answered "no
\* plan" by their selects; the first has inserted its plan, which covers the
\* date, and the second is about to insert another.
C5_BothSawNoPlan ==
  \E p, q \in Procs :
    /\ p # q
    /\ user[p] = user[q]
    /\ date[p] = date[q]
    /\ pc[p] = "entries"
    /\ \E pl \in meal_plans : mpId[p] = Id(pl.id) /\ pl.start_date = date[p]
    /\ pc[q] = "insert"
    /\ error[q] = "none"
    /\ Cardinality(meal_plans) < MaxPlans

\* C6: with no user id the resolution ends in an error: no handler goes on to
\* its meal_plan_entries request without a user.
C6_NotAuthenticated ==
  \A p \in Procs : pc[p] = "entries" => user[p] # NoUser

\* C7: when the store fails the select or the insert of a resolution, the
\* handler ends with the error shown; it does not go on.
C7_PersistenceErrorSurfaced ==
  [][\A p \in Procs :
       (pc[p] \in {"select", "insert"} /\ error'[p] = "failed")
       => pc'[p] = "alert"]_vars

\* C8: every meal plan in the store has start_date <= end_date.
C8_StartNotAfterEnd ==
  \A pl \in meal_plans : pl.start_date <= pl.end_date

\* C8 witness: the table holds plans, one of them created by a resolution
\* whose window the daylight-saving change shortened or a passing day widened.
C8_PlansStored ==
  /\ Cardinality(meal_plans) = MaxPlans
  /\ \E pl \in meal_plans : pl.end_date # pl.start_date + PlanSpanDays

\* The calories per serving of the recipe an entry refers to; none when the
\* entry has no recipe or the recipe states none.
RecipeCalories(e) ==
  IF e.recipes.joined /\ e.recipes.calories_per_serving.t = "num"
  THEN e.recipes.calories_per_serving.v
  ELSE 0

\* The sum over the rows at the indices S of calories per serving times servings.
RECURSIVE SumCalories(_, _)
SumCalories(rows, S) ==
  IF S = {} THEN 0
  ELSE LET i == CHOOSE x \in S : TRUE
       IN RecipeCalories(rows[i]) * rows[i].servings + SumCalories(rows, S \ {i})

\* C9: the calorie total shown for the day, and for each day of the week, is
\* the sum over the day's entries of the recipe's calories per serving times
\* the entry's servings; 0 for a day without entries.
C9_TotalIsSum ==
  /\ shown.day = SumCalories(meals, 1..Len(meals))
  /\ \A k \in WeekKeys :
       shown.week[k] = SumCalories(WeekData[k], 1..Len(WeekData[k]))
  /\ meals = <<>> => shown.day = 0
  /\ \A k \in WeekKeys : WeekData[k] = <<>> => shown.week[k] = 0

\* C9 witness: two breakfasts, 2 servings of 300 and 1 serving of 150, are
\* shown as 750.
C9_TwoMealsShown ==
  /\ Len(meals) = 2
  /\ meals[1].servings = 2 /\ meals[1].recipes = Joined(Num(300))
  /\ meals[2].servings = 1 /\ meals[2].recipes = Joined(Num(150))
  /\ shown.day = 750

\* C10: an entry without a recipe adds nothing: the total shown is a number,
\* the sum of the other entries of that day.
C10_MissingRecipeIsZero ==
  /\ shown.day \in Int
  /\ \A i \in 1..Len(meals) :
       ~meals[i].recipes.joined
       => shown.day = SumCalories(meals, (1..Len(meals)) \ {i})
  /\ \A k \in WeekKeys :
       /\ shown.week[k] \in Int
       /\ \A i \in 1..Len(WeekData[k]) :
            ~WeekData[k][i].recipes.joined
            => shown.week[k] = SumCalories(WeekData[k], (1..Len(WeekData[k])) \ {i})

\* C10 witness: a day with an entry whose recipe is gone and another entry
\* with calories, the total being the other entry's.
C10_RecipeGoneShown ==
  \E i, j \in 1..Len(meals) :
    /\ ~meals[i].recipes.joined
    /\ meals[j].recipes.joined
    /\ shown.day = RecipeCalories(meals[j]) * meals[j].servings
    /\ shown.day > 0

\* The positions of the rows whose meal_type is t.
OfType(rows, t) == {i \in 1..Len(rows) : rows[i].meal_type = t}

\* The number of rows in all the groups gs together.
RECURSIVE GroupedRows(_, _)
GroupedRows(gs, js) ==
  IF js = {} THEN 0
  ELSE LET j == CHOOSE x \in js : TRUE
       IN Len(gs[j]) + GroupedRows(gs, js \ {j})

\* The groups gs partition the rows of a known meal type, in input order: the
\* n-th row of type mealTypes[j] is the n-th row of group j, the groups hold
\* nothing else, and a row of any other type is in none of them.
IsPartition(gs, rows) ==
  /\ DOMAIN gs = DOMAIN mealTypes
  /\ \A j \in DOMAIN mealTypes :
       LET idx == OfType(rows, mealTypes[j])
       IN /\ Len(gs[j]) = Cardinality(idx)
          /\ \A i \in idx : gs[j][Cardinality({h \in idx : h <= i})] = rows[i]
  /\ GroupedRows(gs, DOMAIN gs) =
       Cardinality({i \in 1..Len(rows) :
                      \E j \in DOMAIN mealTypes : rows[i].meal_type = mealTypes[j]})

\* C11: the groups rendered per meal type partition the entries of a known
\* meal type, each in exactly one group and in input order, for the day list
\* and for each day of the week; an entry of another type is in no group.
C11_GroupsPartition ==
  /\ IsPartition(shown.groups, meals)
  /\ \A k \in WeekKeys : IsPartition(shown.weekGroups[k], WeekData[k])

\* C11 witness: the day holds an entry of an unknown meal type and a
\* breakfast; the breakfast is alone in its group and the others are empty.
C11_UnknownTypeDropped ==
  /\ Len(meals) = 2
  /\ meals[1].meal_type = "brunch"
  /\ meals[2].meal_type = "breakfast"
  /\ shown.groups[1] = <<meals[2]>>
  /\ \A j \in 2..4 : shown.groups[j] = <<>>

\* C12: in the week view a day whose fetched entries did not change is rendered
\* with the same groups and the same calorie total, whatever happened to the
\* entries of the other days.
C12_DaysIndependent ==
  [][\A k \in WeekKeys :
       WeekData'[k] = WeekData[k]
       => /\ shown'.week[k] = shown.week[k]
          /\ shown'.weekGroups[k] = shown.weekGroups[k]]_vars

\* C12 witness: two days in a row of the week hold an entry each, with
\* different totals.
C12_TwoDaysLoaded ==
  \E k \in WeekKeys :
    /\ k + 1 \in WeekKeys
    /\ Len(WeekData[k]) = 1
    /\ Len(WeekData[k + 1]) = 1
    /\ shown.week[k] > 0
    /\ shown.week[k + 1] > 0
    /\ shown.week[k] # shown.week[k + 1]

\* The recipe is loaded with base servings b > 0.
BasePositive == recipe.t = "recipe" /\ recipe.servings.t = "num" /\ recipe.servings.v > 0

\* C13: with base servings > 0 and the target serving count equal to the
\* base, every ingredient is rendered with its original quantity.
C13_ScaleToBaseIsIdentity ==
  (BasePositive /\ servings = recipe.servings)
  => \A i \in DOMAIN ingredients : Scaled[i] = ingredients[i].quantity

\* C14: for the targets t2 that a press of '-' or '+' leads to from the target
\* t1 shown (base, t1, t2 positive), the quantity rendered at t1, scaled from
\* base t1 to t2, is the original quantity scaled from the base directly to t2.
C14_ScalingComposes ==
  (BasePositive /\ servings.t = "num" /\ servings.v > 0)
  => \A t2 \in {servings.v + 1, IF servings.v > 1 THEN servings.v - 1 ELSE 1} :
       \A i \in DOMAIN ingredients :
         scaleIngredient(Scaled[i], RecipeRow(servings), Num(t2))
           = scaleIngredient(ingredients[i].quantity, recipe, Num(t2))

\* C15: with base servings <= 0 scaling ends in an InvalidArgument error: no
\* quantity is rendered as a number.
C15_NonPositiveBaseRejected ==
  (recipe.t = "recipe" /\ ToNumber(recipe.servings) <= 0)
  => \A i \in DOMAIN ingredients : Scaled[i].k \notin {"finite", "inf", "nan"}

\* C16: once the recipe is loaded the target serving count is an integer >= 1,
\* and a press of '-' or '+' takes it to the larger of 1 and itself less 1, or
\* to itself plus 1.
C16_ServingsPositive ==
  [][recipe'.t = "recipe"
     => /\ servings'.t = "num"
        /\ servings'.v >= 1
        /\ recipe.t = "recipe"
           => \/ servings'.v = ToNumber(servings) + 1
              \/ servings'.v = ToNumber(servings) - 1
              \/ servings'.v = 1]_vars

\* The calendar day of instant t on the local clock.
LocalDay(t) == LocalWall(t) \div 24

\* C17: getWeekDates(selectedDate) is 7 dates, each one calendar day after the
\* one before, the first being the Sunday on or before the selected date, and
\* their day keys are the 7 consecutive days from that Sunday on.
C17_WeekOfSevenDays ==
  \A p \in Procs :
    LET w == getWeekDates(selectedDate[p])
        sunday == LocalDay(selectedDate[p]) - GetDay(selectedDate[p])
    IN /\ Len(w) = 7
       /\ GetDay(w[1]) = 0
       /\ LocalDay(w[1]) = sunday
       /\ \A i \in 1..6 : LocalDay(w[i + 1]) = LocalDay(w[i]) + 1
       /\ \A i \in 1..7 : ISODay(w[i]) = sunday + (i - 1)

\* The day keys in use: of the selected date, of the dates of its week, of the
\* handlers at work, and the dates of the stored plans.
KeysInUse ==
  UNION {{ISODay(selectedDate[p]), date[p]} : p \in Procs}
    \cup UNION {{ISODay(getWeekDates(selectedDate[p])[i]) : i \in 1..7} : p \in Procs}
    \cup UNION {{pl.start_date, pl.end_date} : pl \in meal_plans}

C19_StepOrdinalsContiguous ==
  \A i \in 1..Len(formData.steps) : formData.steps[i].step_number = i

\* C19 witness: the form holds as many steps as it can, the first left blank
\* and the last written.
C19_StepsEdited ==
  /\ Len(formData.steps) = MaxSteps
  /\ formData.steps[1].instruction = ""
  /\ formData.steps[MaxSteps].instruction = "x"
  /\ formData.steps[MaxSteps].step_number = MaxSteps

\* C20: once handleSave has stored the recipe row, a failure of an insert that
\* follows leaves the row in the table: the step that ends in the alert
\* removes no recipe.
C20_RecipeStaysCommitted ==
  [][(formPc = "children" /\ formPc' = "alert")
     => /\ recipes # {}
        /\ recipes' = recipes]_vars

\* C20 witness: handleSave has ended in its alert, and a recipe is stored that
\* has no ingredient and no step.
C20_OrphanedRecipe ==
  /\ formPc = "alert"
  /\ \E r \in recipes :
       /\ ~\E row \in recipe_ingredients : row.recipe_id = r.id
       /\ ~\E row \in recipe_steps : row.recipe_id = r.id

\* The tables of the store.
Store ==
  <<meal_plans, entries, recipes, recipe_ingredients, recipe_steps,
    shopping_lists, shopping_list_items>>

\* The form of the wizard is complete: title and description, a named
\* ingredient and a step with an instruction.
FormComplete ==
  /\ Trim(formData.title) # ""
  /\ Trim(formData.description) # ""
  /\ Len(NonBlank(formData.ingredients, "ingredient_name", 1)) > 0
  /\ Len(NonBlank(formData.steps, "instruction", 1)) > 0

\* C21: a submit handler started on an input that fails its validation
\* (handleAddMeal without a recipe selected, handleSave on an incomplete form,
\* handleAddRecipe without a title or a description, handleAddItem without an
\* item name) ends in its alert, has issued no request to the authentication
\* service or to the store, and leaves every table as it was.
C21_InvalidInputNoCalls ==
  [][/\ (/\ pc["p1"] = "idle"
         /\ op'["p1"] = "add" \/ pc'["p1"] = "alert"
         /\ Len(selectedRecipeId["p1"]) = 0)
        => pc'["p1"] = "alert" /\ calls'["p1"] = <<>> /\ Store' = Store
     /\ (/\ formPc = "form" /\ currentStep = 3
         /\ formPc' # "form"
         /\ ~FormComplete)
        => formPc' = "alert" /\ calls'["p1"] = <<>> /\ Store' = Store
     /\ (/\ addPc = "modal"
         /\ addPc' # "modal"
         /\ Len(newRecipe.title) = 0 \/ Len(newRecipe.description) = 0)
        => addPc' = "alert" /\ calls'["p1"] = <<>> /\ Store' = Store
     /\ (/\ itemPc = "form"
         /\ itemPc' # "form"
         /\ Len(newItemName) = 0)
        => itemPc' = "alert" /\ calls'["p1"] = <<>> /\ Store' = Store
    ]_vars

\* The planner shows the alert of a press of Add without a recipe selected,
\* with plans stored and no request issued.
C21_AlertWithoutRecipe ==
  /\ screen = "planner"
  /\ pc["p1"] = "alert"
  /\ Len(selectedRecipeId["p1"]) = 0
  /\ calls["p1"] = <<>>
  /\ meal_plans # {}

\* What the selects of user u return from plans, entries and recipes: the
\* rows the SELECT policies reach, each entry with its joined recipe when
\* that can be read.
View(u, plans, ents, recs) ==
  [meal_plans |-> {pl \in plans : Policy(plans, "meal_plans", "select", pl, u)},
   meal_plan_entries |->
     {[row |-> e,
       recipes |-> {r \in recs : /\ Id(r.id) = e.recipe_id
                                 /\ Policy(plans, "recipes", "select", r, u)}] :
        e \in {x \in ents : Policy(plans, "meal_plan_entries", "select", x, u)}},
   recipes |-> {r \in recs : Policy(plans, "recipes", "select", r, u)}]

C25_OwnImagesOnly ==
  request.granted /\ request.table = "storage.objects"
                  /\ request.cmd \in {"update", "delete"}
    => request.owner = request.by

\* C23: every serving count in a stored entry or recipe is an integer of at
\* least 1, whatever was typed into the servings field.
C23_ServingsPositive ==
  /\ \A e \in entries : e.servings >= 1
  /\ \A r \in recipes : r.servings >= 1

\* C24: when handleSave of a signed-in user has sent the insert into recipes
\* for a valid form and has ended, with the success alert or an error alert,
\* the recipe row, every named ingredient and every non-blank step of the form
\* are stored.
C24_SaveStoresAll ==
  (formPc \in {"saved", "alert"}
     /\ \E i \in DOMAIN calls["p1"] : calls["p1"][i] = "recipes.insert")
    => \E r \in recipes :
         /\ r.title = formData.title
         /\ \A j \in DOMAIN validIngredients(formData, r.id) :
              validIngredients(formData, r.id)[j] \in recipe_ingredients
         /\ \A j \in DOMAIN validSteps(formData, r.id) :
              validSteps(formData, r.id)[j] \in recipe_steps

\* C26: no two stored plans of one user have windows, bounds included, that
\* share a day.
C26_PlansDisjoint ==
  \A a, b \in meal_plans :
    a # b /\ a.user_id = b.user_id
      => a.end_date < b.start_date \/ b.end_date < a.start_date

\* C27: once an entry of a user is stored for a day, every load of that day by
\* the user whose plan lookup has been answered has resolved the plan the
\* entry is stored under, and so returns the entry.
C27_ReadYourWrites ==
  \A e \in entries :
    (/\ op["p1"] \in {"load", "week"}
     /\ pc["p1"] \in {"insert", "entries"}
     /\ user["p1"] = Owner("meal_plan_entries", e)
     /\ date["p1"] = e.meal_date)
      => pc["p1"] = "entries" /\ mpId["p1"] = e.meal_plan_id

\* C28: the page of the wizard is 1, 2 or 3; from page 2 on the title and the
\* description are non-blank, on page 3 an ingredient is named; and the
\* insert into recipes is in flight only for a form with a title, a
\* description, a named ingredient and a non-blank step.
C28_WizardPagesValidated ==
  /\ currentStep \in 1..3
  /\ currentStep >= 2 => Trim(formData.title) # "" /\ Trim(formData.description) # ""
  /\ currentStep = 3 => Len(NonBlank(formData.ingredients, "ingredient_name", 1)) > 0
  /\ formPc = "recipe" => FormComplete

\* The insert into recipes is in flight, sent from page 3, for a form that
\* also holds an ingredient left without a name.
C28_InsertInFlight ==
  /\ formPc = "recipe"
  /\ currentStep = 3
  /\ Len(formData.ingredients) = MaxIngredients
  /\ \E i \in DOMAIN formData.ingredients :
       Trim(formData.ingredients[i].ingredient_name) = ""

C30_SettlesOnLatestSession ==
  sessionReply = "done" /\ inbox = <<>>
    => /\ isSignedIn = NotNot(authed)
       /\ segments = IF authed THEN "(tabs)" ELSE "(auth)"

====
